---- MODULE Spec2Model ----
(***************************************************************************)
(* A model of kit-ilias-fuse (src/ilias-fuse.py): the content cache, the   *)
(* authenticated session, the lazily refreshed node tree and the FUSE      *)
(* adapter.  Methods of the program are operators that compute what the    *)
(* code computes; each specification drives them with bounded inputs.      *)
(***************************************************************************)
EXTENDS Integers, Sequences, FiniteSets, TLC

\* ------------------------------------------------------------------ bounds
MaxTime == 2        \* the clock runs 0..MaxTime
MaxTimeout == 1     \* cache_timeout is drawn from 0..MaxTimeout
MaxCapacity == 1    \* capacity (MB) is drawn from 0..MaxCapacity
MaxNodes == 6       \* object identities 1..MaxNodes

\* ----------------------------------------------------------- Python values
\* Python's None and a present value, for fields that may be None.
\* The element of a set of one element; The({ e : x \in {v} }) is e for x = v.
The(S) == CHOOSE x \in S : TRUE

None == <<>>
Some(x) == <<x>>

\* sm / 1024.0 / 1024.0: the number of bytes in one unit of Cache.capacity.
MiB == 1048576

\* ------------------------------------------------------------------- state
VARIABLES
    now,            \* time.time()
    capacity,       \* Cache.capacity (MB)
    cache_timeout,  \* Cache.cache_timeout = IliasSession.cache_timeout (s)
    cache,          \* Cache.cache: the list of CashedFile entries
    cacheLog,       \* history: the last Cache call, its arguments and result
    lastPut,        \* history: per file, the last put of it and what followed
    loggedIn,       \* the portal honours the session's cookies
    login_callback, \* IliasSession.login_callback is set
    sessLog,        \* history: the last call of the session, inputs and result
    site,           \* the portal: which page each listing url serves
    nodes,          \* the objects of the tree, by identity (1: the dashboard)
    fsLog,          \* history: the last filesystem operation and its result
    threads         \* the threads FUSE runs calls on: position and locals of each

cacheVars == <<now, capacity, cache_timeout, cache, cacheLog, lastPut>>
sessVars == <<loggedIn, login_callback, sessLog>>
fsVars == <<site, nodes, fsLog>>
vars == <<cacheVars, sessVars, fsVars, threads>>

\* ------------------------------------------------------------------- Cache
\* A payload (bytes) is modelled by its length and a tag for its content.
Payloads ==
    { [tag |-> 1, len |-> 1], [tag |-> 2, len |-> MiB - 1], [tag |-> 1, len |-> MiB] }

\* The File objects the cache specification puts and gets.
Files == {1, 2, 3}

\* Cache.CashedFile.__init__
CashedFile(file, data, t) == [file |-> file, data |-> data, time |-> t]

\* Cache.size, in bytes: the code returns sm / 1024.0 / 1024.0, and every use
\* compares it with capacity, so  size() > capacity  is  size(c) > capacity * MiB.
RECURSIVE size(_)
size(c) == IF c = <<>> THEN 0 ELSE Head(c).data.len + size(Tail(c))

\* list.index / `in` under CashedFile.__eq__: the first entry whose file is
\* the given File object (0 when there is none).
IndexOf(c, file) ==
    IF \E i \in 1..Len(c) : c[i].file = file
    THEN CHOOSE i \in 1..Len(c) :
            /\ c[i].file = file
            /\ \A j \in 1..(i - 1) : c[j].file # file
    ELSE 0

\* The File objects that list c holds entries of.
FilesIn(c) == { c[i].file : i \in 1..Len(c) }

\* list.pop(i) / list.remove: the list without its i-th element.
RemoveAt(c, i) == SubSeq(c, 1, i - 1) \o SubSeq(c, i + 1, Len(c))

\* The eviction loop of Cache.put.
RECURSIVE Evict(_, _)
Evict(c, cap) ==
    IF size(c) > cap * MiB /\ Len(c) > 1 THEN Evict(Tail(c), cap) ELSE c

\* An eviction loop that drops the entry of the oldest time, not the head.
RECURSIVE EvictOldest(_, _)
EvictOldest(c, cap) ==
    IF size(c) > cap * MiB /\ Len(c) > 1
    THEN EvictOldest(
            RemoveAt(c, CHOOSE i \in 1..Len(c) :
                            /\ \A j \in 1..Len(c) : c[i].time <= c[j].time
                            /\ \A j \in 1..(i - 1) : c[j].time > c[i].time),
            cap)
    ELSE c

\* A put that evicts by the time of the entries.
putEvictOldest(c, cap, file, data, t) ==
    LET i == IndexOf(c, file)
        c1 == IF i # 0 THEN RemoveAt(c, i) ELSE c
    IN EvictOldest(Append(c1, CashedFile(file, data, t)), cap)

\* An eviction loop that may empty the list.
RECURSIVE EvictAll(_, _)
EvictAll(c, cap) ==
    IF size(c) > cap * MiB /\ Len(c) > 0 THEN EvictAll(Tail(c), cap) ELSE c

\* A put whose eviction does not spare the last entry.
putEvictAll(c, cap, file, data, t) ==
    LET i == IndexOf(c, file)
        c1 == IF i # 0 THEN RemoveAt(c, i) ELSE c
    IN EvictAll(Append(c1, CashedFile(file, data, t)), cap)

\* A put that evicts before it appends the new entry.
putEvictFirst(c, cap, file, data, t) ==
    LET i == IndexOf(c, file)
        c1 == IF i # 0 THEN RemoveAt(c, i) ELSE c
    IN Append(Evict(c1, cap), CashedFile(file, data, t))

\* Cache.put
put(c, cap, file, data, t) ==
    LET i == IndexOf(c, file)
        c1 == IF i # 0 THEN RemoveAt(c, i) ELSE c
    IN Evict(Append(c1, CashedFile(file, data, t)), cap)

\* A get that restarts the entry's clock on a hit.
getRefreshesTime(c, timeout, file, t) ==
    LET i == IndexOf(c, file)
    IN IF i = 0 THEN [cache |-> c, ret |-> None]
       ELSE IF t - c[i].time > timeout
            THEN [cache |-> RemoveAt(c, i), ret |-> None]
            ELSE [cache |-> Append(RemoveAt(c, i), [c[i] EXCEPT !.time = t]),
                  ret |-> Some(c[i].data)]

\* A get that leaves an expired entry in the list.
getMasksExpired(c, timeout, file, t) ==
    LET i == IndexOf(c, file)
    IN IF i = 0 THEN [cache |-> c, ret |-> None]
       ELSE IF t - c[i].time > timeout
            THEN [cache |-> c, ret |-> None]
            ELSE [cache |-> Append(RemoveAt(c, i), c[i]), ret |-> Some(c[i].data)]

\* Cache.get: the new list and the returned payload (None: absent).
get(c, timeout, file, t) ==
    LET i == IndexOf(c, file)
    IN IF i = 0 THEN [cache |-> c, ret |-> None]
       ELSE LET obj == c[i]
                c1 == RemoveAt(c, i)
            IN IF t - obj.time > timeout
               THEN [cache |-> c1, ret |-> None]
               ELSE LET c2 == Append(c1, obj)
                    IN [cache |-> c2, ret |-> Some(c2[Len(c2)].data)]

\* ------------------------------------------------------------ IliasSession
\* What the network answers to one login(): p1, p2, potp, p3 tell whether the
\* POST to the portal's login, of the credentials, of the OTP token and of the
\* SAML assertion comes back ("ok") or raises requests.RequestException
\* ("exc"); otp: the credential response asks for a token; saml: the final
\* page holds SAMLResponse and RelayState; accept: the portal establishes the
\* session on the assertion.
LoginInputs ==
    [p1 : {"ok", "exc"}, p2 : {"ok", "exc"}, otp : BOOLEAN, potp : {"ok", "exc"},
     saml : BOOLEAN, p3 : {"ok", "exc"}, accept : BOOLEAN]

\* What a GET answers: a page, a redirect, or requests.RequestException.
Responses == {"ok", "redirect", "exc"}

LoginResult(exc, trace, established) ==
    [exc |-> exc, trace |-> trace, established |-> established]

\* IliasSession.login: the exception it raises ("none": it returns), the steps
\* it took, and whether the portal now honours the session.  cb: the session
\* has a login_callback.
login(lin, cb) ==
    LET t0 == <<"clear", "post_login">>
    IN IF lin.p1 = "exc" THEN LoginResult("RequestException", t0, FALSE)
       ELSE LET t1 == Append(t0, "post_credentials")
            IN IF lin.p2 = "exc" THEN LoginResult("RequestException", t1, FALSE)
               ELSE LET t2 == IF lin.otp THEN Append(t1, "post_otp") ELSE t1
                    IN IF lin.otp /\ lin.potp = "exc"
                       THEN LoginResult("RequestException", t2, FALSE)
                       ELSE IF ~lin.saml
                       THEN LoginResult("InvalidCredentialsError", t2, FALSE)
                       ELSE LET t3 == IF cb THEN Append(t2, "callback") ELSE t2
                                t4 == Append(t3, "post_saml")
                            IN IF lin.p3 = "exc"
                               THEN LoginResult("RequestException", t4, FALSE)
                               ELSE LoginResult("none", t4, lin.accept)

NoLogin == LoginResult("none", <<>>, FALSE)

FetchResult(exc, ok, events, lr) ==
    [exc |-> exc, ok |-> ok, events |-> events, login |-> lr]

\* A get_ensure_login that logs in and retries for as long as it is redirected
\* (here: once more than the code).
get_ensure_login_again(r1, lin, r2, cb) ==
    IF r1 = "exc" THEN FetchResult("IliasFSNetworkError", FALSE, <<"get">>, NoLogin)
    ELSE IF r1 = "ok" THEN FetchResult("none", TRUE, <<"get">>, NoLogin)
    ELSE LET lr == login(lin, cb)
         IN IF lr.exc = "RequestException"
            THEN FetchResult("IliasFSNetworkError", FALSE, <<"get", "login">>, lr)
            ELSE IF lr.exc # "none"
            THEN FetchResult(lr.exc, FALSE, <<"get", "login">>, lr)
            ELSE IF r2 = "exc"
            THEN FetchResult("IliasFSNetworkError", FALSE, <<"get", "login", "get">>, lr)
            ELSE IF r2 = "redirect"
            THEN FetchResult("IliasFSError", FALSE,
                             <<"get", "login", "get", "login", "get">>, lr)
            ELSE FetchResult("none", TRUE, <<"get", "login", "get">>, lr)

\* IliasSession.get_ensure_login: r1 answers the first GET, lin the login (if
\* there is one), r2 the retried GET (if there is one).  exc: the exception
\* that leaves the call ("none": the response is returned); events: the GETs
\* and login() calls in order; login: the result of the login() call.
get_ensure_login(r1, lin, r2, cb) ==
    IF r1 = "exc" THEN FetchResult("IliasFSNetworkError", FALSE, <<"get">>, NoLogin)
    ELSE IF r1 = "ok" THEN FetchResult("none", TRUE, <<"get">>, NoLogin)
    ELSE LET lr == login(lin, cb)
         IN IF lr.exc = "RequestException"
            THEN FetchResult("IliasFSNetworkError", FALSE, <<"get", "login">>, lr)
            ELSE IF lr.exc # "none"
            THEN FetchResult(lr.exc, FALSE, <<"get", "login">>, lr)
            ELSE IF r2 = "exc"
            THEN FetchResult("IliasFSNetworkError", FALSE, <<"get", "login", "get">>, lr)
            ELSE IF r2 = "redirect"
            THEN FetchResult("IliasFSError", FALSE, <<"get", "login", "get">>, lr)
            ELSE FetchResult("none", TRUE, <<"get", "login", "get">>, lr)

\* The portal's session after a call: a login() clears the cookies and, when
\* it returns, leaves what the portal made of the assertion.
LoggedInAfter(before, fr) ==
    IF fr.login.trace = <<>> THEN before ELSE fr.login.established

\* --------------------------------------------------------------- IliasNode
\* A text is a sequence of characters.  An href is what the three patterns of
\* create_instance look at (abs: it starts with https://ilias.studium.kit.edu/,
\* base: the script, and the query parameters) and the page it names (id).
Href(abs, base, repogui, view, filedl, id) ==
    [abs |-> abs, base |-> base, repogui |-> repogui, view |-> view,
     filedl |-> filedl, id |-> id]

\* The properties of a list item that File.__init__ reads: div, a
\* div.il_ItemProperties is there; n, the number of span.il_ItemProperty; ext,
\* the text of the first; size, what human2bytes makes of the second; d2 and
\* d3, what parse_date makes of the third and fourth (-1: the call raises).
Meta(div, n, ext, sz, d2, d3) ==
    [div |-> div, n |-> n, ext |-> ext, size |-> sz, d2 |-> d2, d3 |-> d3]

\* A div.il_ContainerListItem: title, it holds an a.il_ContainerItemTitle;
\* text and href, those of that link.
Item(title, text, href, meta) ==
    [title |-> title, text |-> text, href |-> href, meta |-> meta]

\* str.replace("/", "-")
replace(name) == [i \in 1..Len(name) |-> IF name[i] = "/" THEN "-" ELSE name[i]]

\* IliasNode.__init__: children and last update are None; size and time are
\* attributes of File objects only (0 here).
IliasNode(cls, name, url) ==
    [cls |-> cls, name |-> replace(name), url |-> url, children |-> None,
     updated |-> None, size |-> 0, time |-> 0]

\* Course.__init__, Folder.__init__: the url is made absolute.
Absolute(href) == [href EXCEPT !.abs = TRUE]

\* File.__init__: ok is FALSE when it raises (IndexError for a missing
\* property, ValueError or KeyError from human2bytes, ValueError from
\* parse_date on the fallback too).
File(name, href, meta) ==
    LET base == IliasNode("File", name, href)
        ok == /\ meta.div
              /\ meta.n >= 3
              /\ meta.size >= 0
              /\ meta.d2 >= 0 \/ (meta.n >= 4 /\ meta.d3 >= 0)
    IN [ok |-> ok,
        node |-> [base EXCEPT !.name = base.name \o <<".">> \o meta.ext,
                              !.size = meta.size,
                              !.time = IF meta.d2 >= 0 THEN meta.d2 ELSE meta.d3]]

\* The class create_instance picks: the first pattern of type_mapping that
\* matches the href (re.match: from its start), IliasNode when none does.
ClassOf(href) ==
    IF ~href.abs /\ href.base = "ilias.php" /\ href.repogui THEN "Course"
    ELSE IF ~href.abs /\ href.base = "ilias.php" /\ href.view THEN "Folder"
    ELSE IF href.abs /\ href.base = "goto.php" /\ href.filedl THEN "File"
    ELSE "IliasNode"

\* IliasNode.create_instance
create_instance(name, href, meta) ==
    LET cls == ClassOf(href)
    IN IF cls = "File" THEN File(name, href, meta)
       ELSE IF cls \in {"Course", "Folder"}
            THEN [ok |-> TRUE, node |-> IliasNode(cls, name, Absolute(href))]
            ELSE [ok |-> TRUE, node |-> IliasNode(cls, name, href)]

\* dict: a sequence of entries in insertion order; d[name] = node keeps the
\* place of a name that is there; d.get(name) is 0 (None) for a name that is not.
DictSet(d, name, node) ==
    IF \E i \in 1..Len(d) : d[i].name = name
    THEN [i \in 1..Len(d) |->
            IF d[i].name = name THEN [name |-> name, node |-> node] ELSE d[i]]
    ELSE Append(d, [name |-> name, node |-> node])

DictGet(d, name) ==
    IF \E i \in 1..Len(d) : d[i].name = name
    THEN d[CHOOSE i \in 1..Len(d) : d[i].name = name].node
    ELSE 0

\* IliasDashboard.__init__: the root, object 1.
Root == 1
DashboardUrl == Href(TRUE, "ilias.php", FALSE, FALSE, FALSE, 0)
IliasDashboard == IliasNode("IliasDashboard", <<"D">>, DashboardUrl)

\* ------------------------------------------------------------- the portal
hCourse == Href(FALSE, "ilias.php", TRUE, FALSE, FALSE, 1)
hFolder == Href(FALSE, "ilias.php", FALSE, TRUE, FALSE, 2)
hFile == Href(TRUE, "goto.php", FALSE, FALSE, TRUE, 3)
hForum == Href(FALSE, "ilias.php", FALSE, FALSE, FALSE, 4)

NoMeta == Meta(FALSE, 0, <<>>, -1, -1, -1)
mOk == Meta(TRUE, 3, <<"x">>, 5, 7, -1)        \* the primary date parses
mFallback == Meta(TRUE, 4, <<"x">>, 5, -1, 7)  \* only the fallback date parses
mBad == Meta(TRUE, 4, <<"x">>, 5, -1, -1)      \* neither date parses

iCourse == Item(TRUE, <<"A">>, hCourse, NoMeta)
iNoTitle == Item(FALSE, <<>>, hCourse, NoMeta)
iForum == Item(TRUE, <<"F">>, hForum, NoMeta)
iFolder == Item(TRUE, <<"a", "/", "b">>, hFolder, NoMeta)

\* The listings the portal can serve at the dashboard url (root) and at the
\* course url (course), and the bytes at the file url (content).
Sites ==
    << [root |-> <<iCourse, iNoTitle, iForum>>,
        course |-> <<Item(TRUE, <<"f">>, hFile, mOk), iFolder>>,
        content |-> [tag |-> 1, len |-> 20]],
       [root |-> <<iCourse, iNoTitle, iForum>>,
        course |-> <<iFolder, Item(TRUE, <<"f">>, hFile, NoMeta), iCourse>>,
        content |-> [tag |-> 1, len |-> 20]],
       [root |-> <<iCourse, Item(TRUE, <<"g">>, hFile, mBad)>>,
        course |-> <<Item(TRUE, <<"f">>, hFile, mFallback)>>,
        content |-> [tag |-> 2, len |-> MiB]] >>

\* The list items of the page at url, as soup.select finds them: the folder
\* is empty, and the bytes of a file hold no list item.
PageOf(url) ==
    IF url.id = 0 THEN Sites[site].root
    ELSE IF url.id = 1 THEN Sites[site].course
    ELSE <<>>

\* The bytes the file url serves.
ContentOf(url) == Sites[site].content

\* The conditions one filesystem operation can meet: "ok"; "down", the
\* network is down (requests raise); "bad", the identity provider returns no
\* assertion for the credentials; "rejected", the portal establishes no
\* session on the assertion.
Envs == {"ok", "down", "bad", "rejected"}

\* What the portal answers to a GET of url: requests raises for a url without
\* a scheme and for a network that is down; a session the portal does not
\* honour is redirected to the login.
Answer(env, url, li) ==
    IF ~url.abs \/ env = "down" THEN "exc"
    ELSE IF li THEN "ok" ELSE "redirect"

\* What the network and the identity provider answer to a login().
EnvLogin(env) ==
    [p1 |-> IF env = "down" THEN "exc" ELSE "ok",
     p2 |-> IF env = "down" THEN "exc" ELSE "ok",
     otp |-> FALSE, potp |-> "ok",
     saml |-> env # "bad",
     p3 |-> IF env = "down" THEN "exc" ELSE "ok",
     accept |-> env = "ok"]

\* ------------------------------------------------- the tree's operations
\* The program's mutable state during one filesystem operation under the
\* condition env: the objects,
\* the session, the cache, and what the operation did so far (fetches: the
\* get_ensure_login calls, each with its url and the exception it raised;
\* gcalls: the get_children calls, each with the object before and after, the
\* fetches it made, the exception it raised and the dict it returned the
\* values of).  full:
\* the model ran out of object identities.
World(env) ==
    [env |-> env, nodes |-> nodes, loggedIn |-> loggedIn, cache |-> cache,
     fetches |-> <<>>, gcalls |-> <<>>, full |-> FALSE]

\* get_ensure_login(url) against the portal.
session_get(w, url) ==
    The({ [fr |-> fr,
           w |-> [w EXCEPT !.loggedIn = LoggedInAfter(w.loggedIn, fr),
                           !.fetches = Append(w.fetches, [url |-> url, exc |-> fr.exc])]] :
          fr \in { get_ensure_login(
                      Answer(w.env, url, w.loggedIn), EnvLogin(w.env),
                      Answer(w.env, url,
                             login(EnvLogin(w.env), login_callback).established),
                      login_callback) } })

\* The objects of a dict, in its order: dict.values().
Values(d) == [i \in 1..Len(d) |-> d[i].node]

\* The objects reachable from the dashboard; the others are garbage.
RECURSIVE ReachFrom(_, _)
ReachFrom(ns, S) ==
    LET T == S \cup UNION { IF ns[x].children = None THEN {}
                            ELSE { ns[x].children[1][i].node :
                                        i \in 1..Len(ns[x].children[1]) } : x \in S }
    IN IF T = S THEN S ELSE ReachFrom(ns, T)

Collect(ns) == [x \in ReachFrom(ns, {Root}) |-> ns[x]]

\* The identities no live object has: those of the tree and those the cache
\* holds as keys are taken.
FreeIds(w) == (1..MaxNodes) \ (DOMAIN w.nodes \cup FilesIn(w.cache))

Min(S) == CHOOSE x \in S : \A y \in S : x <= y

\* A get_children that drops a child it cannot construct and goes on.
RECURSIVE ParseItemsSkipping(_, _, _)
ParseItemsSkipping(items, w, d) ==
    IF items = <<>> THEN [ok |-> TRUE, w |-> w, d |-> d]
    ELSE IF ~Head(items).title THEN ParseItemsSkipping(Tail(items), w, d)
    ELSE LET it == Head(items)
             c == create_instance(it.text, it.href, it.meta)
         IN IF ~c.ok THEN ParseItemsSkipping(Tail(items), w, d)
            ELSE IF FreeIds(w) = {}
            THEN [ok |-> TRUE, w |-> [w EXCEPT !.full = TRUE], d |-> d]
            ELSE LET id == Min(FreeIds(w))
                 IN ParseItemsSkipping(Tail(items),
                               [w EXCEPT !.nodes = (id :> c.node) @@ w.nodes],
                               DictSet(d, c.node.name, id))

\* The loop of get_children over the list items: d is self.__children so far.
\* ok is FALSE when create_instance raised.
RECURSIVE ParseItems(_, _, _)
ParseItems(items, w, d) ==
    IF items = <<>> THEN [ok |-> TRUE, w |-> w, d |-> d]
    ELSE IF ~Head(items).title THEN ParseItems(Tail(items), w, d)
    ELSE LET it == Head(items)
             c == create_instance(it.text, it.href, it.meta)
         IN IF ~c.ok THEN [ok |-> FALSE, w |-> w, d |-> d]
            ELSE IF FreeIds(w) = {}
            THEN [ok |-> TRUE, w |-> [w EXCEPT !.full = TRUE], d |-> d]
            ELSE LET id == Min(FreeIds(w))
                 IN ParseItems(Tail(items),
                               [w EXCEPT !.nodes = (id :> c.node) @@ w.nodes],
                               DictSet(d, c.node.name, id))

\* The end of a get_children call: the objects left, the call logged.
Returned(w, n, pre, ns, exc, f0) ==
    The({ [exc |-> exc,
           ret |-> IF exc = "none" THEN Values(live[n].children[1]) ELSE <<>>,
           w |-> [w EXCEPT !.nodes = live,
                           !.gcalls = Append(w.gcalls,
                               [n |-> n, pre |-> pre, post |-> live[n], exc |-> exc,
                                fetched |-> SubSeq(w.fetches, f0 + 1, Len(w.fetches)),
                                ret |-> IF exc = "none"
                                        THEN Some(live[n].children[1]) ELSE None])]] :
          live \in { Collect(ns) } })

\* A staleness test that refetches a listing already at the age of the timeout.
staleAtTimeout(node) ==
    node.children = None \/ node.updated[1] <= now - cache_timeout

\* The test of get_children for fetching the children (again).
stale(node) ==
    node.children = None \/ node.updated[1] < now - cache_timeout

\* An except branch without the reset: the dict emptied for the refresh stays.
childrenLeftEmpty(before) == Some(<<>>)

\* The except branch of get_children: self.__children = None.
childrenAfterError(before) == None

\* IliasNode.get_children on object n: the exception that leaves it ("none":
\* it returns ret, the children), and the state it leaves.
get_children(w, n) ==
    IF ~stale(w.nodes[n])
    THEN Returned(w, n, w.nodes[n], w.nodes, "none", Len(w.fetches))
    ELSE The({
        IF sg.fr.exc # "none"
        THEN Returned(sg.w, n, w.nodes[n], sg.w.nodes, sg.fr.exc, Len(w.fetches))
        ELSE The({
            IF pr.ok
            THEN Returned(pr.w, n, w.nodes[n],
                     [pr.w.nodes EXCEPT ![n].children = Some(pr.d)], "none",
                     Len(w.fetches))
            ELSE Returned(pr.w, n, w.nodes[n],
                     [pr.w.nodes EXCEPT
                         ![n].children = childrenAfterError(w.nodes[n])],
                     "IliasFSParseError", Len(w.fetches)) :
            pr \in { ParseItems(PageOf(w.nodes[n].url), sg.w, <<>>) } }) :
        sg \in { session_get(
                   [w EXCEPT !.nodes = Collect([w.nodes EXCEPT
                                ![n].updated = Some(now),
                                ![n].children = Some(<<>>)])],
                   w.nodes[n].url) } })

\* IliasNode.get_child_by_name: ret is the child, 0 for None.
get_child_by_name(w, n, name) ==
    The({ IF r.exc # "none" THEN [exc |-> r.exc, ret |-> 0, w |-> r.w]
          ELSE [exc |-> "none",
                ret |-> IF r.w.nodes[n].children # None
                        THEN DictGet(r.w.nodes[n].children[1], name) ELSE 0,
                w |-> r.w] :
          r \in { get_children(w, n) } })

\* A walk that goes on to the next segment from the last node it found.
RECURSIVE path_to_object_skipping(_, _, _, _)
path_to_object_skipping(w, n, parts, seen) ==
    IF parts = <<>> THEN [exc |-> "none", ret |-> n, w |-> w, seen |-> seen]
    ELSE The({
        IF r.exc # "none" THEN [exc |-> r.exc, ret |-> 0, w |-> r.w, seen |-> sn]
        ELSE path_to_object_skipping(r.w, IF r.ret = 0 THEN n ELSE r.ret,
                                     Tail(parts), sn) :
        r \in { get_child_by_name(w, n, Head(parts)) },
        sn \in { Append(seen, [n |-> n, name |-> Head(parts)]) } })

\* IliasFS.__path_to_object from node n over the segments parts: ret is the
\* object, 0 for None; seen: the lookups made, in order.
RECURSIVE path_to_object(_, _, _, _)
path_to_object(w, n, parts, seen) ==
    IF parts = <<>> THEN [exc |-> "none", ret |-> n, w |-> w, seen |-> seen]
    ELSE The({
        IF r.exc # "none" THEN [exc |-> r.exc, ret |-> 0, w |-> r.w, seen |-> sn]
        ELSE IF r.ret = 0 THEN [exc |-> "none", ret |-> 0, w |-> r.w, seen |-> sn]
        ELSE path_to_object(r.w, r.ret, Tail(parts), sn) :
        r \in { get_child_by_name(w, n, Head(parts)) },
        sn \in { Append(seen, [n |-> n, name |-> Head(parts)]) } })

\* ------------------------------------------------------ File.download
Least(a, b) == IF a <= b THEN a ELSE b

\* A slice that takes sz bytes from the start of the payload, whatever offset.
SliceFromStart(data, offset, sz) ==
    [tag |-> data.tag, lo |-> 0, hi |-> Least(sz, data.len)]

\* data[offset:offset + sz] for offset, sz >= 0: the bytes lo..hi-1 of the
\* payload, none when lo = hi.
Slice(data, offset, sz) ==
    [tag |-> data.tag, lo |-> Least(offset, data.len),
     hi |-> Least(offset + sz, data.len)]

NoSlice == [tag |-> 0, lo |-> 0, hi |-> 0]

\* A download that leaves the size of the listing on the object.
download_keeps_size(w, n, sz, offset, t) ==
    The({
        IF g.ret # None
        THEN [exc |-> "none", ret |-> Slice(g.ret[1], offset, sz),
              w |-> [w EXCEPT !.cache = g.cache]]
        ELSE The({
            IF sg.fr.exc # "none"
            THEN [exc |-> sg.fr.exc, ret |-> NoSlice, w |-> sg.w]
            ELSE [exc |-> "none", ret |-> Slice(content, offset, sz),
                  w |-> [sg.w EXCEPT
                           !.cache = put(sg.w.cache, capacity, n, content, t)]] :
            sg \in { session_get([w EXCEPT !.cache = g.cache], w.nodes[n].url) },
            content \in { ContentOf(w.nodes[n].url) } }) :
        g \in { get(w.cache, cache_timeout, n, t) } })

\* File.download on object n, the clock reading t when it runs.
download_at(w, n, sz, offset, t) ==
    The({
        IF g.ret # None
        THEN [exc |-> "none", ret |-> Slice(g.ret[1], offset, sz),
              w |-> [w EXCEPT !.cache = g.cache]]
        ELSE The({
            IF sg.fr.exc # "none"
            THEN [exc |-> sg.fr.exc, ret |-> NoSlice, w |-> sg.w]
            ELSE [exc |-> "none", ret |-> Slice(content, offset, sz),
                  w |-> [sg.w EXCEPT
                           !.cache = put(sg.w.cache, capacity, n, content, t),
                           !.nodes[n].size = content.len]] :
            sg \in { session_get([w EXCEPT !.cache = g.cache], w.nodes[n].url) },
            content \in { ContentOf(w.nodes[n].url) } }) :
        g \in { get(w.cache, cache_timeout, n, t) } })

\* File.download on object n at the time of the operation.
download(w, n, sz, offset) == download_at(w, n, sz, offset, now)

\* ------------------------------------------------------------------ IliasFS
\* The classes `except IliasFSError` catches: IliasFSError and its subclasses
\* (InvalidCredentialsError is a ValueError).
IsIliasFSError(e) ==
    e \in {"IliasFSError", "IliasFSNetworkError", "IliasFSParseError", "LoginError"}

\* raise_ilias_error_to_fuse: the errno of the FuseOSError it raises.
raise_ilias_error_to_fuse(e) ==
    IF e = "LoginError" THEN "EACCES"
    ELSE IF e = "IliasFSParseError" THEN "EREMOTEIO"
    ELSE "EIO"

\* try ... except IliasFSError as e: raise_ilias_error_to_fuse(e) -- what
\* leaves the operation when e is raised inside it: an errno, or e itself.
Excepted(e) == IF IsIliasFSError(e) THEN raise_ilias_error_to_fuse(e) ELSE e

NoAttrs == [st_mode |-> "none", st_size |-> 0, st_ctime |-> 0, st_mtime |-> 0]

\* The outcome of an operation: err is "none" when it returns, the errno of
\* the FuseOSError or the class of the exception that leaves it otherwise;
\* raised: the exception raised inside the try block; pexc: the exception
\* that left __path_to_object; node: what it returned (0: None, or nothing);
\* seen: its lookups.
Outcome(w, err, raised, pr, attrs, names, data) ==
    [w |-> w, err |-> err, raised |-> raised, pexc |-> pr.exc, node |-> pr.ret,
     seen |-> pr.seen, attrs |-> attrs, names |-> names, data |-> data]

\* IliasFS.access
access(w, path) ==
    The({ IF pr.exc # "none"
          THEN Outcome(pr.w, Excepted(pr.exc), pr.exc, pr, NoAttrs, <<>>, NoSlice)
          ELSE IF pr.ret # 0
          THEN Outcome(pr.w, "none", "none", pr, NoAttrs, <<>>, NoSlice)
          ELSE Outcome(pr.w, "ENOENT", "none", pr, NoAttrs, <<>>, NoSlice) :
          pr \in { path_to_object(w, Root, path, <<>>) } })

\* IliasFS.getattr (st_uid and st_gid are those of the process)
getattr(w, path) ==
    The({ IF pr.exc # "none"
          THEN Outcome(pr.w, Excepted(pr.exc), pr.exc, pr, NoAttrs, <<>>, NoSlice)
          ELSE IF pr.ret # 0
          THEN LET node == pr.w.nodes[pr.ret]
                   is_file == node.cls = "File"
               IN Outcome(pr.w, "none", "none", pr,
                      [st_mode |-> IF is_file THEN "S_IFREG|0o444" ELSE "S_IFDIR|0o555",
                       st_size |-> IF is_file THEN node.size ELSE 0,
                       st_ctime |-> IF is_file THEN node.time ELSE 0,
                       st_mtime |-> IF is_file THEN node.time ELSE 0],
                      <<>>, NoSlice)
          ELSE Outcome(pr.w, "ENOENT", "none", pr, NoAttrs, <<>>, NoSlice) :
          pr \in { path_to_object(w, Root, path, <<>>) } })

\* The names readdir lists for the children kids of the objects ns.
RECURSIVE Listed(_, _)
Listed(ns, kids) ==
    IF kids = <<>> THEN <<>>
    ELSE IF ns[Head(kids)].cls # "IliasNode"
         THEN <<ns[Head(kids)].name>> \o Listed(ns, Tail(kids))
         ELSE Listed(ns, Tail(kids))

\* IliasFS.readdir: node.get_children() on None raises AttributeError.
readdir(w, path) ==
    The({ IF pr.exc # "none"
          THEN Outcome(pr.w, Excepted(pr.exc), pr.exc, pr, NoAttrs, <<>>, NoSlice)
          ELSE IF pr.ret = 0
          THEN Outcome(pr.w, Excepted("AttributeError"), "AttributeError", pr,
                       NoAttrs, <<>>, NoSlice)
          ELSE The({
              IF gc.exc # "none"
              THEN Outcome(gc.w, Excepted(gc.exc), gc.exc, pr, NoAttrs, <<>>, NoSlice)
              ELSE Outcome(gc.w, "none", "none", pr, NoAttrs,
                       <<(<<".">>), <<".", ".">> >> \o Listed(gc.w.nodes, gc.ret),
                       NoSlice) :
              gc \in { get_children(pr.w, pr.ret) } }) :
          pr \in { path_to_object(w, Root, path, <<>>) } })

\* IliasFS.read, the clock reading t when the download starts.
read_at(w, path, sz, offset, t) ==
    The({ IF pr.exc # "none"
          THEN Outcome(pr.w, Excepted(pr.exc), pr.exc, pr, NoAttrs, <<>>, NoSlice)
          ELSE IF pr.ret = 0
          THEN Outcome(pr.w, "ENOENT", "none", pr, NoAttrs, <<>>, NoSlice)
          ELSE IF pr.w.nodes[pr.ret].cls # "File"
          THEN Outcome(pr.w, "EISDIR", "none", pr, NoAttrs, <<>>, NoSlice)
          ELSE The({
              IF dl.exc # "none"
              THEN Outcome(dl.w, Excepted(dl.exc), dl.exc, pr, NoAttrs, <<>>, NoSlice)
              ELSE Outcome(dl.w, "none", "none", pr, NoAttrs, <<>>, dl.ret) :
              dl \in { download_at(pr.w, pr.ret, sz, offset, t) } }) :
          pr \in { path_to_object(w, Root, path, <<>>) } })

\* IliasFS.read within one reading of the clock.
read(w, path, sz, offset) == read_at(w, path, sz, offset, now)

\* ------------------------------------------------- the cache specification
\* lastPut[f].st: "never" before the first put of f; "live" while the entry of
\* the last put of f is in the list (t, data: that put); "gone" once a put evicted that entry or a get dropped it.
Never == [st |-> "never", t |-> 0, data |-> None]
Gone == [st |-> "gone", t |-> 0, data |-> None]
Live(t, d) == [st |-> "live", t |-> t, data |-> Some(d)]

NoCall == [op |-> "none", file |-> 0, data |-> None, ret |-> None,
           pre |-> <<>>, t |-> 0, lp |-> Never]

NoFetch == [call |-> "none", r1 |-> "ok", lin |-> CHOOSE l \in LoginInputs : TRUE,
            r2 |-> "ok", res |-> FetchResult("none", FALSE, <<>>, NoLogin)]

\* The session as the cache specification leaves it: logged in, never called.
SessIdle == loggedIn = TRUE /\ login_callback = TRUE /\ sessLog = NoFetch

NoOp == [op |-> "none", path |-> <<>>, sz |-> 0, offset |-> 0,
         err |-> "none", raised |-> "none", pexc |-> "none", node |-> 0,
         seen |-> <<>>,
         attrs |-> NoAttrs, names |-> <<>>, data |-> NoSlice,
         gcalls |-> <<>>, fetches |-> <<>>, cache0 |-> <<>>, size0 |-> 0]

\* The portal and the tree as the program starts: the dashboard object alone,
\* its children not fetched yet.
FsIdle ==
    /\ site = 1
    /\ nodes = (Root :> IliasDashboard)
    /\ fsLog = NoOp

\* The specifications of one call at a time run no threads.
NoThreads == threads = <<>>

InitCache ==
    /\ now = 0
    /\ capacity \in 0..MaxCapacity
    /\ cache_timeout \in 0..MaxTimeout
    /\ cache = <<>>
    /\ cacheLog = NoCall
    /\ lastPut = [f \in Files |-> Never]
    /\ SessIdle
    /\ FsIdle
    /\ NoThreads

CachePut(f, d) ==
    /\ cache' = put(cache, capacity, f, d, now)
    /\ cacheLog' = [op |-> "put", file |-> f, data |-> Some(d), ret |-> None,
                    pre |-> cache, t |-> now, lp |-> lastPut[f]]
    /\ lastPut' = [g \in Files |->
                    IF g = f THEN Live(now, d)
                    ELSE IF g \in FilesIn(cache) /\ g \notin FilesIn(cache')
                         THEN Gone
                         ELSE lastPut[g]]
    /\ UNCHANGED <<now, capacity, cache_timeout, sessVars, fsVars, threads>>

CacheGet(f) ==
    LET r == get(cache, cache_timeout, f, now)
    IN /\ cache' = r.cache
       /\ cacheLog' = [op |-> "get", file |-> f, data |-> None, ret |-> r.ret,
                       pre |-> cache, t |-> now, lp |-> lastPut[f]]
       /\ lastPut' = [lastPut EXCEPT ![f] =
                        IF f \in FilesIn(cache) /\ f \notin FilesIn(cache')
                        THEN Gone ELSE @]
       /\ UNCHANGED <<now, capacity, cache_timeout, sessVars, fsVars, threads>>

\* Time passes (and the histories of the last calls are cleared).
Tick ==
    /\ now < MaxTime
    /\ now' = now + 1
    /\ cacheLog' = NoCall
    /\ sessLog' = NoFetch
    /\ fsLog' = NoOp
    /\ UNCHANGED <<capacity, cache_timeout, cache, lastPut, loggedIn,
                   login_callback, site, nodes, threads>>

NextCache ==
    \/ \E f \in Files, d \in Payloads : CachePut(f, d)
    \/ \E f \in Files : CacheGet(f)
    \/ Tick

SpecCache == InitCache /\ [][NextCache]_vars

\* ------------------------------------------------------ claims on the cache
\* The entry of file f in list c (c holds one).
EntryOf(c, f) == c[CHOOSE i \in 1..Len(c) : c[i].file = f]

\* The bytes of all payloads of list c, summed over its positions.
TotalBytes(c) ==
    LET RECURSIVE upto(_)
        upto(n) == IF n = 0 THEN 0 ELSE c[n].data.len + upto(n - 1)
    IN upto(Len(c))

\* C1: after every put, the payloads of the cache total at most capacity (MB)
\* or exactly one entry remains.
C1_CapacityAfterPut ==
    cacheLog.op = "put" =>
        \/ TotalBytes(cache) <= capacity * MiB
        \/ Len(cache) = 1

\* C1's case: a put that had to evict two entries to get under the capacity.
C1_Witness ==
    /\ cacheLog.op = "put"
    /\ Cardinality(FilesIn(cacheLog.pre) \ FilesIn(cache)) = 2
    /\ TotalBytes(cache) <= capacity * MiB

\* C2: a get of a file whose last put is more than cache_timeout old returns
\* None, whatever gets came between; a get within cache_timeout of the last
\* put, its entry not evicted, returns the payload of that put.
C2_CacheTTL ==
    cacheLog.op = "get" =>
        LET lp == cacheLog.lp
        IN /\ lp.st = "live" /\ cacheLog.t - lp.t > cache_timeout
                => cacheLog.ret = None
           /\ lp.st = "gone" => cacheLog.ret = None
           /\ lp.st = "live" /\ cacheLog.t - lp.t <= cache_timeout
                => cacheLog.ret = lp.data

\* C2's case: a get after the timeout of an entry that an earlier get, within
\* the timeout, had returned and moved to the end of the list.
C2_Witness ==
    /\ cacheLog.op = "get"
    /\ cacheLog.lp.st = "live"
    /\ cacheLog.t - cacheLog.lp.t > cache_timeout
    /\ cacheLog.ret = None
    /\ Len(cacheLog.pre) > 1
    /\ cacheLog.pre[Len(cacheLog.pre)].file = cacheLog.file
    /\ \E i \in 1..(Len(cacheLog.pre) - 1) :
            cacheLog.pre[i].time > cacheLog.lp.t

\* C3 as stated: a get of an expired entry returns None and leaves the list
\* as it was, the expired entry still in it and counted in its size.
C3_MaskedNotPurged ==
    ( /\ cacheLog.op = "get"
      /\ cacheLog.file \in FilesIn(cacheLog.pre)
      /\ cacheLog.t - EntryOf(cacheLog.pre, cacheLog.file).time > cache_timeout )
    => /\ cacheLog.ret = None
       /\ cache = cacheLog.pre
       /\ TotalBytes(cache) = TotalBytes(cacheLog.pre)

\* C3 amended: a get of an expired entry returns None and removes the entry:
\* afterwards the list holds the other entries, in their order, and its size
\* no longer counts the expired payload.
C3_ExpiredGetPurges ==
    ( /\ cacheLog.op = "get"
      /\ cacheLog.file \in FilesIn(cacheLog.pre)
      /\ cacheLog.t - EntryOf(cacheLog.pre, cacheLog.file).time > cache_timeout )
    => /\ cacheLog.ret = None
       /\ cacheLog.file \notin FilesIn(cache)
       /\ Len(cache) = Len(cacheLog.pre) - 1
       /\ \A i \in 1..Len(cache) :
            \E j \in 1..Len(cacheLog.pre) : cache[i] = cacheLog.pre[j]
       /\ \A i, j \in 1..Len(cache) :
            i < j => \E k, l \in 1..Len(cacheLog.pre) :
                        k < l /\ cacheLog.pre[k] = cache[i] /\ cacheLog.pre[l] = cache[j]
       /\ TotalBytes(cache)
            = TotalBytes(cacheLog.pre) - EntryOf(cacheLog.pre, cacheLog.file).data.len

\* C3's case: a get of an expired entry of a list that holds other entries.
C3_Witness ==
    /\ cacheLog.op = "get"
    /\ cacheLog.file \in FilesIn(cacheLog.pre)
    /\ cacheLog.t - EntryOf(cacheLog.pre, cacheLog.file).time > cache_timeout
    /\ Len(cacheLog.pre) = 3
    /\ cacheLog.pre[2].file = cacheLog.file

\* ----------------------------------------------- the session specification
\* What a GET can answer: a page only while the portal honours the session,
\* a redirect (to the login page) only while it does not.
Answers(li) == IF li THEN {"ok", "exc"} ELSE {"redirect", "exc"}

\* The cache as the session specification leaves it: empty, never called.
CacheIdle ==
    /\ now = 0
    /\ capacity = 0
    /\ cache_timeout = 0
    /\ cache = <<>>
    /\ cacheLog = NoCall
    /\ lastPut = [f \in Files |-> Never]

\* IliasSession.__init__ has logged in; main passes save_user_pass as the
\* callback, the class's default is None.
InitSession ==
    /\ loggedIn = TRUE
    /\ login_callback \in BOOLEAN
    /\ sessLog = NoFetch
    /\ CacheIdle
    /\ FsIdle
    /\ NoThreads

\* One call of get_ensure_login.
Fetch(r1, lin, r2) ==
    LET fr == get_ensure_login(r1, lin, r2, login_callback)
    IN /\ r1 \in Answers(loggedIn)
       /\ r2 \in Answers(login(lin, login_callback).established)
       /\ sessLog' = [call |-> "get_ensure_login", r1 |-> r1, lin |-> lin,
                      r2 |-> r2, res |-> fr]
       /\ loggedIn' = LoggedInAfter(loggedIn, fr)
       /\ UNCHANGED <<login_callback, cacheVars, fsVars, threads>>

\* The portal ends the session.
Expire ==
    /\ loggedIn
    /\ loggedIn' = FALSE
    /\ sessLog' = NoFetch
    /\ fsLog' = NoOp
    /\ UNCHANGED <<login_callback, cacheVars, site, nodes, threads>>

NextSession ==
    \/ \E r1 \in Responses, lin \in LoginInputs, r2 \in Responses : Fetch(r1, lin, r2)
    \/ Expire

SpecSession == InitSession /\ [][NextSession]_vars

\* -------------------------------------------- the filesystem specification
\* The paths the operations are called with, as PurePath(path).parts[1:].
Paths ==
    { <<>>, << <<"A">> >>,
      << <<"A">>, <<"f", ".", "x">> >>,
      << <<"A">>, <<"M">>, <<"f", ".", "x">> >> }

\* The (size, offset) pairs read is called with.
ReadArgs == { <<5, 18>> }

\* __main__: the session has logged in and has save_user_pass as its callback;
\* the cache is empty and the tree is the dashboard object.
InitFs ==
    /\ now = 0
    /\ capacity = MaxCapacity
    /\ cache_timeout = MaxTimeout
    /\ cache = <<>>
    /\ cacheLog = NoCall
    /\ lastPut = [f \in Files |-> Never]
    /\ SessIdle
    /\ FsIdle
    /\ NoThreads

\* One filesystem operation, from the call to its return or exception, the
\* clock reading t at its end.
\* The history keeps what it was called with and what came of it; cache0 and
\* size0 are the list of the cache and the size of the object at node before it.
DoneAt(op, path, sz, offset, res, t) ==
    \E r \in {res} :
       /\ ~r.w.full
       /\ nodes' = r.w.nodes
       /\ loggedIn' = r.w.loggedIn
       /\ cache' = r.w.cache
       /\ fsLog' = [op |-> op, path |-> path, sz |-> sz, offset |-> offset,
                    err |-> r.err, raised |-> r.raised, pexc |-> r.pexc,
                    node |-> r.node,
                    seen |-> r.seen, attrs |-> r.attrs, names |-> r.names,
                    data |-> r.data, gcalls |-> r.w.gcalls,
                    fetches |-> r.w.fetches, cache0 |-> cache,
                    size0 |-> IF r.node \in DOMAIN nodes
                              THEN nodes[r.node].size ELSE 0]
       /\ now' = t
       /\ UNCHANGED <<capacity, cache_timeout, cacheLog, lastPut,
                      login_callback, sessLog, site, threads>>

\* One filesystem operation within one reading of the clock.
Done(op, path, sz, offset, res) == DoneAt(op, path, sz, offset, res, now)

OpAccess(path, env) == Done("access", path, 0, 0, access(World(env), path))
OpGetattr(path, env) == Done("getattr", path, 0, 0, getattr(World(env), path))
OpReaddir(path, env) == Done("readdir", path, 0, 0, readdir(World(env), path))
OpRead(path, a, env) ==
    Done("read", path, a[1], a[2], read(World(env), path, a[1], a[2]))

\* The portal's listings change.
SiteChange ==
    /\ site' \in (1..Len(Sites)) \ {site}
    /\ fsLog' = NoOp
    /\ UNCHANGED <<cacheVars, sessVars, nodes, threads>>

\* The conditions that make a difference now: "bad" and "rejected" differ from
\* "ok" only in a login(), which takes a session the portal does not honour.
EnvsNow == IF loggedIn THEN {"ok", "down"} ELSE Envs

NextFs ==
    \/ \E path \in Paths, env \in EnvsNow : OpAccess(path, env)
    \/ \E path \in Paths, env \in EnvsNow : OpGetattr(path, env)
    \/ \E path \in Paths, env \in EnvsNow : OpReaddir(path, env)
    \/ \E path \in Paths, a \in ReadArgs, env \in EnvsNow : OpRead(path, a, env)
    \/ Tick
    \/ Expire
    \/ SiteChange

SpecFs == InitFs /\ [][NextFs]_vars

\* ---------------------------------------------------- claims on the session
\* How often e occurs in the sequence of events ev.
Count(ev, e) == Cardinality({ i \in 1..Len(ev) : ev[i] = e })

\* C4 as stated: after a redirect on the first GET there is exactly one
\* login() and then exactly one retried GET; a redirect on the retry raises
\* IliasFSError; without a redirect on the first GET there is no login().
C4_RedirectRelogin ==
    sessLog.call = "get_ensure_login" =>
        LET ev == sessLog.res.events
        IN /\ sessLog.r1 = "redirect" => ev = <<"get", "login", "get">>
           /\ sessLog.r1 # "redirect" => ev = <<"get">>

\* C4 amended: after a redirect on the first GET there is exactly one login();
\* if that login() returns, exactly one retried GET follows it, and a redirect
\* on the retry raises IliasFSError with no further login or GET; if that
\* login() raises, the call fails with no retried GET.  Without a redirect on
\* the first GET there is no login().  At most 2 GETs and 1 login per call.
C4_RedirectReloginOnce ==
    sessLog.call = "get_ensure_login" =>
        LET ev == sessLog.res.events
            lr == sessLog.res.login
        IN /\ ev[1] = "get"
           /\ sessLog.r1 = "redirect"
                => /\ Len(ev) >= 2 /\ ev[2] = "login"
                   /\ Count(ev, "login") = 1
                   /\ lr.exc = "none"
                        => /\ ev = <<"get", "login", "get">>
                           /\ sessLog.r2 = "redirect" => sessLog.res.exc = "IliasFSError"
                           /\ sessLog.r2 = "ok" => sessLog.res.exc = "none"
                   /\ lr.exc # "none"
                        => /\ ev = <<"get", "login">>
                           /\ sessLog.res.exc # "none"
           /\ sessLog.r1 # "redirect" => ev = <<"get">>
           /\ Count(ev, "get") <= 2
           /\ Count(ev, "login") <= 1

\* C4's case: both GETs are redirected around a login() that returned.
C4_Witness ==
    /\ sessLog.call = "get_ensure_login"
    /\ sessLog.r1 = "redirect"
    /\ sessLog.r2 = "redirect"
    /\ sessLog.res.login.exc = "none"
    /\ sessLog.res.exc = "IliasFSError"
    /\ sessLog.res.events = <<"get", "login", "get">>

\* ------------------------------------- claims on the tree and the adapter
\* The get_children calls of the last operation; they ran at the time now and
\* against the listings of Sites[site].
Calls == { fsLog.gcalls[i] : i \in 1..Len(fsLog.gcalls) }

\* The object was never populated, or its last update is older than the timeout.
Outdated(node) ==
    node.children = None \/ now - node.updated[1] > cache_timeout

\* The names of a dict.
NamesOf(d) == { d[i].name : i \in 1..Len(d) }

\* The list items of a page that hold a title link.
Titled(page) == { it \in { page[i] : i \in 1..Len(page) } : it.title }

\* The titled items of a page whose object cannot be constructed.
Failing(page) ==
    { it \in Titled(page) : ~create_instance(it.text, it.href, it.meta).ok }

\* The names of the objects of the titled items that can be constructed.
Constructible(page) ==
    { create_instance(it.text, it.href, it.meta).node.name :
        it \in Titled(page) \ Failing(page) }

\* The call fetched its page once, and the portal served it.
Served(g) ==
    /\ Len(g.fetched) = 1
    /\ g.fetched[1].exc = "none"

\* C5: a get_children call on an object that was never populated or whose last
\* update is older than the timeout makes exactly one fetch, of the object's
\* page, and sets the last update to the time of the call; a call on an object
\* that is populated and not older makes no fetch and returns the children it
\* holds, leaving the object as it is.
C5_RefreshOnStale ==
    \A g \in Calls :
        /\ Outdated(g.pre)
             => /\ Len(g.fetched) = 1
                /\ g.fetched[1].url = g.pre.url
                /\ g.post.updated = Some(now)
        /\ ~Outdated(g.pre)
             => /\ g.fetched = <<>>
                /\ g.exc = "none"
                /\ g.ret = g.pre.children
                /\ g.post = g.pre

\* C5's case: one operation walked over a populated object whose listing had
\* reached the age of the timeout, not more, and needed no fetch, and over an
\* object that had to be fetched.
C5_Witness ==
    /\ \E g \in Calls : /\ g.pre.children # None
                        /\ now - g.pre.updated[1] = cache_timeout
                        /\ cache_timeout > 0
                        /\ g.fetched = <<>>
                        /\ g.ret # Some(<<>>)
    /\ \E g \in Calls : /\ Outdated(g.pre)
                        /\ Len(g.fetched) = 1
                        /\ g.exc = "none"
                        /\ g.post.updated = Some(now)

C8_PathResolution ==
    fsLog.op # "none" /\ fsLog.pexc = "none" =>
        LET path == fsLog.path
            seen == fsLog.seen
            g == fsLog.gcalls
            k == Len(fsLog.seen)
        IN /\ path = <<>> => fsLog.node = Root /\ seen = <<>>
           /\ k <= Len(path)
           /\ Len(g) = k + (IF fsLog.op = "readdir" /\ fsLog.node # 0 THEN 1 ELSE 0)
           /\ k >= 1 => seen[1].n = Root
           /\ \A i \in 1..k : /\ seen[i].name = path[i]
                              /\ g[i].n = seen[i].n
                              /\ g[i].exc = "none"
           /\ \A i \in 1..(k - 1) : /\ DictGet(g[i].ret[1], path[i]) # 0
                                    /\ DictGet(g[i].ret[1], path[i]) = seen[i + 1].n
           /\ fsLog.node = 0 => /\ k >= 1
                                /\ DictGet(g[k].ret[1], path[k]) = 0
           /\ fsLog.node # 0 => /\ k = Len(path)
                                /\ k >= 1 => DictGet(g[k].ret[1], path[k]) = fsLog.node

\* C8's case: a path of three segments whose second has no child in the
\* object the first leads to: the third is never looked up.
C8_Witness ==
    /\ fsLog.op # "none"
    /\ fsLog.pexc = "none"
    /\ Len(fsLog.path) = 3
    /\ Len(fsLog.seen) = 2
    /\ fsLog.node = 0
    /\ fsLog.seen[2].n # Root
    /\ DictGet(fsLog.gcalls[2].ret[1], fsLog.path[3]) # 0

\* C9 as stated: each of access, getattr, readdir and read fails with ENOENT,
\* and with nothing else, when the path resolves to no object.
C9_UnresolvedIsENOENT ==
    fsLog.op # "none" /\ fsLog.pexc = "none" /\ fsLog.node = 0
        => fsLog.err = "ENOENT"

\* The exceptions of the program's own classes: those of the session and of
\* the tree.
DomainErrors ==
    {"IliasFSError", "IliasFSNetworkError", "IliasFSParseError", "LoginError",
     "InvalidCredentialsError"}

\* C10 as stated: every failure of the session, the tree or the cache inside
\* access, getattr, readdir or read leaves the operation as an OS error code:
\* EACCES when a (re-)login fails for invalid credentials, EREMOTEIO for a
\* parse failure, EIO for network and session errors.
C10_DomainErrorsTranslated ==
    fsLog.op # "none" /\ fsLog.raised \in DomainErrors
        => fsLog.err = CASE fsLog.raised \in {"LoginError", "InvalidCredentialsError"}
                                -> "EACCES"
                         [] fsLog.raised = "IliasFSParseError" -> "EREMOTEIO"
                         [] OTHER -> "EIO"

\* --------------------------------------------------- concurrent callers
\* FUSE dispatches the operations on threads of its own, and the program
\* takes no lock: the statements of one call interleave with those of
\* another.  A step of a thread is one statement (or one iteration of a loop).
Threads == {1, 2}

\* The calls one thread makes in a run.
MaxCalls == 2

\* ------------------------- the tree under concurrent get_child_by_name calls
\* The locals of a thread in get_child_by_name(name) on the dashboard: page,
\* the list items of the page it fetched; i, the item its loop is at; seen,
\* the dict the lookup of line 287 read (None: self.__children was None);
\* found, what the call returned (0: None); exc, the exception that left it.
TreeIdle(calls) ==
    [pc |-> "idle", calls |-> calls, name |-> <<>>, page |-> <<>>, i |-> 0,
     seen |-> None, found |-> 0, exc |-> "none"]

\* The names the callers look up: both are children of the dashboard.
LookupNames == { <<"A">>, <<"F">> }

InitTree ==
    /\ now = 0
    /\ capacity = MaxCapacity
    /\ cache_timeout = MaxTimeout
    /\ cache = <<>>
    /\ cacheLog = NoCall
    /\ lastPut = [f \in Files |-> Never]
    /\ SessIdle
    /\ FsIdle
    /\ threads = [t \in Threads |-> TreeIdle(0)]

\* One step of thread t changes its locals and the dashboard object.
TreeStep(t, locals, node) ==
    /\ threads' = [threads EXCEPT ![t] = locals]
    /\ nodes' = [nodes EXCEPT ![Root] = node]
    /\ UNCHANGED <<cacheVars, sessVars, site, fsLog>>

\* A thread enters get_child_by_name(name) of the dashboard.
TreeCall(t, name) ==
    /\ threads[t].pc = "idle"
    /\ threads[t].calls < MaxCalls
    /\ TreeStep(t, [TreeIdle(threads[t].calls) EXCEPT !.pc = "test", !.name = name],
                nodes[Root])

\* Line 264: the test of get_children.
TreeTest(t) ==
    /\ threads[t].pc = "test"
    /\ TreeStep(t, [threads[t] EXCEPT
                      !.pc = IF stale(nodes[Root]) THEN "clear" ELSE "lookup"],
                nodes[Root])

\* Lines 265-266: the time of the refresh is taken and the dict is emptied.
TreeClear(t) ==
    /\ threads[t].pc = "clear"
    /\ TreeStep(t, [threads[t] EXCEPT !.pc = "fetch"],
                [nodes[Root] EXCEPT !.updated = Some(now), !.children = Some(<<>>)])

\* Line 267, with the portal answering: the page arrives.
TreeFetch(t) ==
    /\ threads[t].pc = "fetch"
    /\ TreeStep(t, [threads[t] EXCEPT !.pc = "parse", !.i = 1,
                                      !.page = PageOf(nodes[Root].url)],
                nodes[Root])

\* Lines 272-281: one iteration of the loop over the list items, or its end.
\* The child goes into the dict self.__children names at that moment; the
\* objects of the children are not followed here, an entry holds the position
\* of its list item.  An exception (of create_instance, or of the assignment
\* when self.__children is None) takes the except branch.
TreeParse(t) ==
    LET l == threads[t]
        it == l.page[l.i]
        c == create_instance(it.text, it.href, it.meta)
    IN /\ l.pc = "parse"
       /\ IF l.i > Len(l.page)
          THEN TreeStep(t, [l EXCEPT !.pc = "lookup"], nodes[Root])
          ELSE IF ~it.title
          THEN TreeStep(t, [l EXCEPT !.i = @ + 1], nodes[Root])
          ELSE IF ~c.ok \/ nodes[Root].children = None
          THEN TreeStep(t, [l EXCEPT !.pc = "done", !.exc = "IliasFSParseError"],
                        [nodes[Root] EXCEPT !.children = childrenAfterError(nodes[Root])])
          ELSE TreeStep(t, [l EXCEPT !.i = @ + 1],
                        [nodes[Root] EXCEPT !.children =
                            Some(DictSet(nodes[Root].children[1], c.node.name, l.i))])

\* Line 287: the lookup in the dict of that moment.
TreeLookup(t) ==
    /\ threads[t].pc = "lookup"
    /\ TreeStep(t, [threads[t] EXCEPT
                      !.pc = "done",
                      !.seen = nodes[Root].children,
                      !.found = IF nodes[Root].children # None
                                THEN DictGet(nodes[Root].children[1], threads[t].name)
                                ELSE 0],
                nodes[Root])

\* The call returns to the operation that made it.
TreeReturn(t) ==
    /\ threads[t].pc = "done"
    /\ TreeStep(t, TreeIdle(threads[t].calls + 1), nodes[Root])

NextTree ==
    \/ \E t \in Threads, name \in LookupNames : TreeCall(t, name)
    \/ \E t \in Threads : TreeTest(t)
    \/ \E t \in Threads : TreeClear(t)
    \/ \E t \in Threads : TreeFetch(t)
    \/ \E t \in Threads : TreeParse(t)
    \/ \E t \in Threads : TreeLookup(t)
    \/ \E t \in Threads : TreeReturn(t)
    \/ Tick

SpecTree == InitTree /\ [][NextTree]_vars

\* C11 as stated: under concurrent calls, a get_child_by_name that returns
\* has looked its name up in a complete children map, the one of the page the
\* portal serves (it serves one page here): never in an empty or partly
\* filled one, so a child that exists is found.
C11_NoHalfPopulatedChildren ==
    \A t \in Threads :
        threads[t].pc = "done" /\ threads[t].exc = "none"
            => /\ threads[t].seen # None
               /\ NamesOf(threads[t].seen[1]) = Constructible(PageOf(DashboardUrl))
               /\ threads[t].found # 0

\* ------------------------------------ the cache under concurrent calls
\* The locals of a thread in Cache.put(file, data) or Cache.get(file): t, the
\* time of the CashedFile put made; hit, the outcome of its `in` test; obj,
\* the entry get popped; ret, what get returned; exc, the exception that left
\* the call; midway, get missed an entry that another get held popped, not
\* yet re-appended and not expired.
CacheThreadIdle(calls) ==
    [pc |-> "idle", calls |-> calls, op |-> "none", file |-> 0, data |-> None,
     t |-> 0, hit |-> FALSE, obj |-> None, ret |-> None, exc |-> "none",
     midway |-> FALSE]

\* The File objects and payloads of the concurrent calls.
SharedFiles == {1, 2}
SharedPayloads == { [tag |-> 1, len |-> 1], [tag |-> 2, len |-> MiB] }

InitCacheShared ==
    /\ now = 0
    /\ capacity = MaxCapacity
    /\ cache_timeout = MaxTimeout
    /\ cache = <<>>
    /\ cacheLog = NoCall
    /\ lastPut = [f \in Files |-> Never]
    /\ SessIdle
    /\ FsIdle
    /\ threads = [t \in Threads |-> CacheThreadIdle(0)]

\* One step of thread t changes its locals and the list.
CacheStep(t, locals, c) ==
    /\ threads' = [threads EXCEPT ![t] = locals]
    /\ cache' = c
    /\ UNCHANGED <<now, capacity, cache_timeout, cacheLog, lastPut, sessVars, fsVars>>

\* A thread enters put (line 103: the entry is made, with the time of now).
PutCall(t, f, d) ==
    /\ threads[t].pc = "idle"
    /\ threads[t].calls < MaxCalls
    /\ CacheStep(t, [CacheThreadIdle(threads[t].calls) EXCEPT
                        !.pc = "p_test", !.op = "put", !.file = f,
                        !.data = Some(d), !.t = now],
                 cache)

\* Line 104: if c in self.cache
PutTest(t) ==
    /\ threads[t].pc = "p_test"
    /\ CacheStep(t, [threads[t] EXCEPT
                        !.pc = IF IndexOf(cache, threads[t].file) # 0
                               THEN "p_remove" ELSE "p_append"],
                 cache)

\* Line 105: self.cache.remove(c); list.remove raises ValueError when no
\* element equals c.
PutRemove(t) ==
    /\ threads[t].pc = "p_remove"
    /\ IF IndexOf(cache, threads[t].file) = 0
       THEN CacheStep(t, [threads[t] EXCEPT !.pc = "done", !.exc = "ValueError"], cache)
       ELSE CacheStep(t, [threads[t] EXCEPT !.pc = "p_append"],
                      RemoveAt(cache, IndexOf(cache, threads[t].file)))

\* Line 106: self.cache.append(c)
PutAppend(t) ==
    /\ threads[t].pc = "p_append"
    /\ CacheStep(t, [threads[t] EXCEPT !.pc = "p_evict"],
                 Append(cache, CashedFile(threads[t].file, threads[t].data[1],
                                          threads[t].t)))

\* Lines 107-108: one iteration of the eviction loop, or its end.
PutEvict(t) ==
    /\ threads[t].pc = "p_evict"
    /\ IF size(cache) > capacity * MiB /\ Len(cache) > 1
       THEN CacheStep(t, threads[t], Tail(cache))
       ELSE CacheStep(t, [threads[t] EXCEPT !.pc = "done"], cache)

\* A thread enters get.
GetCall(t, f) ==
    /\ threads[t].pc = "idle"
    /\ threads[t].calls < MaxCalls
    /\ CacheStep(t, [CacheThreadIdle(threads[t].calls) EXCEPT
                        !.pc = "g_test", !.op = "get", !.file = f],
                 cache)

\* Line 113: if file in self.cache; get returns None (line 119) otherwise.
GetTest(t) ==
    /\ threads[t].pc = "g_test"
    /\ IF IndexOf(cache, threads[t].file) # 0
       THEN CacheStep(t, [threads[t] EXCEPT !.pc = "g_pop"], cache)
       ELSE CacheStep(t, [threads[t] EXCEPT
                            !.pc = "done",
                            !.midway = \E u \in Threads \ {t} :
                                /\ threads[u].pc = "g_age"
                                /\ threads[u].obj[1].file = threads[t].file
                                /\ now - threads[u].obj[1].time <= cache_timeout],
                      cache)

\* Line 114: obj = self.cache.pop(self.cache.index(file)); list.index raises
\* ValueError when no element equals file.
GetPop(t) ==
    /\ threads[t].pc = "g_pop"
    /\ IF IndexOf(cache, threads[t].file) = 0
       THEN CacheStep(t, [threads[t] EXCEPT !.pc = "done", !.exc = "ValueError"], cache)
       ELSE CacheStep(t, [threads[t] EXCEPT
                            !.pc = "g_age",
                            !.obj = Some(cache[IndexOf(cache, threads[t].file)])],
                      RemoveAt(cache, IndexOf(cache, threads[t].file)))

\* Lines 115-117: the age test; an entry that has not expired is appended.
GetAge(t) ==
    /\ threads[t].pc = "g_age"
    /\ IF now - threads[t].obj[1].time > cache_timeout
       THEN CacheStep(t, [threads[t] EXCEPT !.pc = "done"], cache)
       ELSE CacheStep(t, [threads[t] EXCEPT !.pc = "g_ret"],
                      Append(cache, threads[t].obj[1]))

\* Line 118: return self.cache[len(self.cache) - 1].data; on an empty list
\* the index is -1 and raises IndexError.
GetReturn(t) ==
    /\ threads[t].pc = "g_ret"
    /\ IF cache = <<>>
       THEN CacheStep(t, [threads[t] EXCEPT !.pc = "done", !.exc = "IndexError"], cache)
       ELSE CacheStep(t, [threads[t] EXCEPT !.pc = "done",
                                            !.ret = Some(cache[Len(cache)].data)],
                      cache)

\* The call has returned (or raised).
CacheReturn(t) ==
    /\ threads[t].pc = "done"
    /\ CacheStep(t, CacheThreadIdle(threads[t].calls + 1), cache)

NextCacheShared ==
    \/ \E t \in Threads, f \in SharedFiles, d \in SharedPayloads : PutCall(t, f, d)
    \/ \E t \in Threads : PutTest(t)
    \/ \E t \in Threads : PutRemove(t)
    \/ \E t \in Threads : PutAppend(t)
    \/ \E t \in Threads : PutEvict(t)
    \/ \E t \in Threads, f \in SharedFiles : GetCall(t, f)
    \/ \E t \in Threads : GetTest(t)
    \/ \E t \in Threads : GetPop(t)
    \/ \E t \in Threads : GetAge(t)
    \/ \E t \in Threads : GetReturn(t)
    \/ \E t \in Threads : CacheReturn(t)
    \/ Tick

SpecCacheShared == InitCacheShared /\ [][NextCacheShared]_vars

\* C12 as stated: under any interleaving of put and get calls the list never
\* holds two entries of one File object; no call raises; and a get never
\* returns None for an entry that is present and has not expired because
\* another call is between removing and re-appending it.
C12_CacheCallsAtomic ==
    /\ \A i, j \in 1..Len(cache) : i # j => cache[i].file # cache[j].file
    /\ \A t \in Threads :
        threads[t].pc = "done"
            => /\ threads[t].exc = "none"
               /\ ~threads[t].midway

\* ---------------------------------- the session under concurrent calls
\* The locals of a thread in get_ensure_login(url), with the network up and
\* the credentials good: its position, and the exception that left the call.
SessThreadIdle(calls) == [pc |-> "idle", calls |-> calls, exc |-> "none"]

\* The positions inside login().
LoginSteps == {"clear", "post_login", "post_credentials", "callback", "post_saml"}

InitSessionShared ==
    /\ CacheIdle
    /\ SessIdle
    /\ FsIdle
    /\ threads = [t \in Threads |-> SessThreadIdle(0)]

\* One step of thread t changes its locals and the session's cookies.
SessStep(t, locals, li) ==
    /\ threads' = [threads EXCEPT ![t] = locals]
    /\ loggedIn' = li
    /\ UNCHANGED <<login_callback, sessLog, cacheVars, fsVars>>

\* A thread enters get_ensure_login.
FetchCall(t) ==
    /\ threads[t].pc = "idle"
    /\ threads[t].calls < MaxCalls
    /\ SessStep(t, [SessThreadIdle(threads[t].calls) EXCEPT !.pc = "get"], loggedIn)

\* Lines 223-225: the first GET; a redirect leads into login().
FetchGet(t) ==
    /\ threads[t].pc = "get"
    /\ SessStep(t, [threads[t] EXCEPT !.pc = IF loggedIn THEN "done" ELSE "clear"],
                loggedIn)

\* Line 178: self.cookies.clear() drops the cookies of the session, whoever
\* obtained them.
LoginClear(t) ==
    /\ threads[t].pc = "clear"
    /\ SessStep(t, [threads[t] EXCEPT !.pc = "post_login"], FALSE)

\* Line 181: the POST to the portal's login.
LoginPost(t) ==
    /\ threads[t].pc = "post_login"
    /\ SessStep(t, [threads[t] EXCEPT !.pc = "post_credentials"], loggedIn)

\* Lines 188-208: the POST of the credentials; the assertion is found.
LoginCredentials(t) ==
    /\ threads[t].pc = "post_credentials"
    /\ SessStep(t, [threads[t] EXCEPT
                      !.pc = IF login_callback THEN "callback" ELSE "post_saml"],
                loggedIn)

\* Lines 210-211: the callback.
LoginCallback(t) ==
    /\ threads[t].pc = "callback"
    /\ SessStep(t, [threads[t] EXCEPT !.pc = "post_saml"], loggedIn)

\* Line 213: the POST of the assertion; the portal sets the session's cookies.
LoginSaml(t) ==
    /\ threads[t].pc = "post_saml"
    /\ SessStep(t, [threads[t] EXCEPT !.pc = "retry"], TRUE)

\* Lines 227-229: the retried GET; a redirect raises IliasFSError.
FetchRetry(t) ==
    /\ threads[t].pc = "retry"
    /\ SessStep(t, [threads[t] EXCEPT
                      !.pc = "done",
                      !.exc = IF loggedIn THEN "none" ELSE "IliasFSError"],
                loggedIn)

\* The call has returned (or raised).
FetchReturn(t) ==
    /\ threads[t].pc = "done"
    /\ SessStep(t, SessThreadIdle(threads[t].calls + 1), loggedIn)

NextSessionShared ==
    \/ \E t \in Threads : FetchCall(t)
    \/ \E t \in Threads : FetchGet(t)
    \/ \E t \in Threads : LoginClear(t)
    \/ \E t \in Threads : LoginPost(t)
    \/ \E t \in Threads : LoginCredentials(t)
    \/ \E t \in Threads : LoginCallback(t)
    \/ \E t \in Threads : LoginSaml(t)
    \/ \E t \in Threads : FetchRetry(t)
    \/ \E t \in Threads : FetchReturn(t)
    \/ Expire

SpecSessionShared == InitSessionShared /\ [][NextSessionShared]_vars

\* C13 as stated: at most one thread is inside login() at any time, and so no
\* call is failed by the cookies.clear() of another thread's login().
C13_LoginMutuallyExclusive ==
    /\ Cardinality({ t \in Threads : threads[t].pc \in LoginSteps }) <= 1
    /\ \A t \in Threads : threads[t].exc = "none"

\* --------------------------------------------------- reads of one file
\* The path of the file the reads are for, and their (size, offset) pairs:
\* offsets before, at and behind the end of a payload of 20 bytes.
FilePath == << <<"A">>, <<"f", ".", "x">> >>
WideReadArgs == { <<sz, offset>> : sz \in {0, 5}, offset \in {0, 18, 20, 25} }

\* A read during which the clock moves on between the resolution of the path
\* and the download: each reads time.time() for itself.
OpReadSlow(path, a, env) ==
    /\ now < MaxTime
    /\ DoneAt("read", path, a[1], a[2],
              read_at(World(env), path, a[1], a[2], now + 1), now + 1)

NextRead ==
    \/ \E a \in WideReadArgs, env \in EnvsNow : OpRead(FilePath, a, env)
    \/ \E a \in WideReadArgs, env \in EnvsNow : OpReadSlow(FilePath, a, env)
    \/ \E env \in EnvsNow : OpGetattr(FilePath, env)
    \/ Tick
    \/ Expire
    \/ SiteChange

SpecRead == InitFs /\ [][NextRead]_vars

\* The last operation fetched the bytes of a file from the portal.
FetchedFile == \E i \in 1..Len(fsLog.fetches) : fsLog.fetches[i].url = Absolute(hFile)

\* The payload a read that returned had at hand: the bytes it fetched, or the
\* entry of the cache it hit (which get moved to the end of the list).
PayloadRead ==
    IF FetchedFile THEN ContentOf(nodes[fsLog.node].url)
    ELSE EntryOf(cache, fsLog.node).data

\* C14: a read that returns, of size s at offset o of a file with payload P,
\* returns the bytes o .. min(o + s, len(P)) - 1 of P: s bytes when
\* o + s <= len(P), the len(P) - o last bytes when o < len(P) < o + s, none
\* when o >= len(P); P is the entry of the cache on a hit and the fetched
\* bytes on a miss, and the bytes returned are cut from it alike.
C14_ReadSlicing ==
    fsLog.op = "read" /\ fsLog.err = "none" =>
        LET P == PayloadRead
            o == fsLog.offset
            sz == fsLog.sz
            d == fsLog.data
        IN /\ d.tag = P.tag
           /\ o + sz <= P.len => d.lo = o /\ d.hi = o + sz
           /\ o < P.len /\ P.len < o + sz => d.lo = o /\ d.hi = P.len
           /\ o >= P.len => d.hi = d.lo
           /\ 0 <= d.lo /\ d.lo <= d.hi /\ d.hi <= P.len

\* C14's case: a read across the end of a payload that came from the cache.
C14_Witness ==
    /\ fsLog.op = "read"
    /\ fsLog.err = "none"
    /\ ~FetchedFile
    /\ fsLog.offset < PayloadRead.len
    /\ PayloadRead.len < fsLog.offset + fsLog.sz
    /\ fsLog.data.hi - fsLog.data.lo = 2

\* The last operation fetched no listing: the objects of the tree are those
\* of before it.
SameTree == \A g \in Calls : g.fetched = <<>>

\* What holds after a read that missed the cache and returned, and of the
\* size getattr reports: the fetched payload is the entry of the object, the
\* object's size is the length of the payload, and getattr reports the size of
\* the object, which is the length of its entry when the cache holds one.
ReadStoresPayload ==
    /\ fsLog.op = "read" /\ fsLog.err = "none" /\ FetchedFile
        => /\ fsLog.node \in FilesIn(cache)
           /\ EntryOf(cache, fsLog.node).data = ContentOf(nodes[fsLog.node].url)
           /\ nodes[fsLog.node].size = ContentOf(nodes[fsLog.node].url).len
    /\ fsLog.op = "getattr" /\ fsLog.err = "none" /\ nodes[fsLog.node].cls = "File"
        => /\ fsLog.attrs.st_size = nodes[fsLog.node].size
           /\ fsLog.node \in FilesIn(cache)
                => fsLog.attrs.st_size = EntryOf(cache, fsLog.node).data.len

\* C15 as stated: a read that misses the cache and returns stores the payload
\* under the object and sets the object's size to its length, which a getattr
\* then reports; a read that fails leaves the cache and the object's size as
\* they were.
C15_FailedReadChangesNothing ==
    /\ ReadStoresPayload
    /\ fsLog.op = "read" /\ fsLog.raised # "none"
        => /\ cache = fsLog.cache0
           /\ fsLog.node # 0 /\ SameTree => nodes[fsLog.node].size = fsLog.size0

\* C15 amended: a read that misses the cache and returns stores the payload
\* under the object and sets the object's size to its length, which a getattr
\* then reports; a read that fails stores nothing and leaves the object's size
\* as it was, and the one change it can make to the cache is to drop the
\* expired entry of the object, which Cache.get pops before the fetch.
C15_FailedReadStoresNothing ==
    /\ ReadStoresPayload
    /\ fsLog.op = "read" /\ fsLog.raised # "none"
        => /\ \/ cache = fsLog.cache0
              \/ /\ fsLog.node # 0
                 /\ fsLog.node \in FilesIn(fsLog.cache0)
                 /\ now - EntryOf(fsLog.cache0, fsLog.node).time > cache_timeout
                 /\ cache = RemoveAt(fsLog.cache0, IndexOf(fsLog.cache0, fsLog.node))
           /\ fsLog.node # 0 /\ SameTree => nodes[fsLog.node].size = fsLog.size0

\* C15's case: a read found the entry of its file expired and failed on the
\* fetch: the entry is gone, the other entries and the size are as before.
C15_Witness ==
    /\ fsLog.op = "read"
    /\ fsLog.raised = "IliasFSNetworkError"
    /\ fsLog.node # 0
    /\ fsLog.node \in FilesIn(fsLog.cache0)
    /\ fsLog.node \notin FilesIn(cache)
    /\ nodes[fsLog.node].size = fsLog.size0

\* ------------------------------------------------ the order of eviction
\* The list of the last put before its eviction loop ran: the list of before
\* the call without the entry of the file, and the new entry at its end.
Appended ==
    LET i == IndexOf(cacheLog.pre, cacheLog.file)
    IN Append(IF i # 0 THEN RemoveAt(cacheLog.pre, i) ELSE cacheLog.pre,
              CashedFile(cacheLog.file, cacheLog.data[1], cacheLog.t))

\* The number of entries the last put evicted.
Evictions == Len(Appended) - Len(cache)

\* C16 as stated: an entry that put evicts is, of the entries in the list at
\* that moment, the one of the oldest time (the time of its put).
C16_EvictsOldestFetch ==
    cacheLog.op = "put" =>
        /\ cache = SubSeq(Appended, Evictions + 1, Len(Appended))
        /\ \A i \in 1..Evictions :
            \A j \in (i + 1)..Len(Appended) : Appended[i].time <= Appended[j].time

\* C16 amended: an entry that put evicts is the head of the list at that
\* moment, whatever its time: put leaves a tail of the list it appended to,
\* each entry it dropped was dropped over capacity, and the list is in the
\* order of last use, for put appends the new entry and a get that returns a
\* payload moves its entry to the end.
C16_EvictsHead ==
    /\ cacheLog.op = "put" =>
        /\ cache = SubSeq(Appended, Evictions + 1, Len(Appended))
        /\ \A i \in 1..Evictions :
            TotalBytes(SubSeq(Appended, i, Len(Appended))) > capacity * MiB
    /\ cacheLog.op = "get" /\ cacheLog.ret # None =>
        LET i == IndexOf(cacheLog.pre, cacheLog.file)
        IN cache = Append(RemoveAt(cacheLog.pre, i), cacheLog.pre[i])

\* C16's case: put evicted the head while the list held an entry of an older
\* time, which an earlier get had moved behind it.
C16_Witness ==
    /\ cacheLog.op = "put"
    /\ Evictions >= 1
    /\ \E j \in 2..Len(Appended) : Appended[1].time > Appended[j].time

\* ---------------------------------------------- the entry just inserted
\* The times at which a payload put now can be got before it expires.
InTime == { t \in now..MaxTime : t - now <= cache_timeout }

\* C20: put never evicts the entry it inserts, whatever the size of the
\* payload: after put the entry of the file is the last of the list and holds
\* the payload; a get of the file in time returns that payload, also after a
\* get of any other file; and a get takes no entry from the list but an
\* expired one of the file it was called with.
C20_PutKeepsNewEntry ==
    /\ cacheLog.op = "put" =>
        /\ Len(cache) >= 1
        /\ cache[Len(cache)] = CashedFile(cacheLog.file, cacheLog.data[1], cacheLog.t)
        /\ \A t \in InTime :
            /\ get(cache, cache_timeout, cacheLog.file, t).ret = cacheLog.data
            /\ \A g \in Files \ {cacheLog.file}, u \in now..t :
                get(get(cache, cache_timeout, g, u).cache,
                    cache_timeout, cacheLog.file, t).ret = cacheLog.data
    /\ cacheLog.op = "get" =>
        \A i \in 1..Len(cacheLog.pre) :
            \/ \E j \in 1..Len(cache) : cache[j] = cacheLog.pre[i]
            \/ /\ cacheLog.pre[i].file = cacheLog.file
               /\ cacheLog.t - cacheLog.pre[i].time > cache_timeout

\* C20's case: a payload larger than the whole capacity was put into a list
\* that held other entries, and is the one entry left.
C20_Witness ==
    /\ cacheLog.op = "put"
    /\ cacheLog.data[1].len > capacity * MiB
    /\ \E i \in 1..Len(cacheLog.pre) : cacheLog.pre[i].file # cacheLog.file
    /\ cache = <<CashedFile(cacheLog.file, cacheLog.data[1], cacheLog.t)>>

\* --------------------------------------------------- the login callback
\* The positions of a step in the trace of the last login().
StepsAt(step) ==
    { i \in 1..Len(sessLog.res.login.trace) : sessLog.res.login.trace[i] = step }

\* C17: login() invokes the callback at most once, only after the POST of the
\* assertion to the portal, and never when it raises.
C17_CallbackOnlyAfterHandshake ==
    /\ Cardinality(StepsAt("callback")) <= 1
    /\ \A i \in StepsAt("callback") :
        /\ sessLog.res.login.exc = "none"
        /\ \E j \in StepsAt("post_saml") : j < i

\* ------------------------------------------- a refresh that cannot fetch
\* The listings the portal can serve at a url, over all of Sites.
Listings(url) ==
    { IF url.id = 0 THEN Sites[s].root
      ELSE IF url.id = 1 THEN Sites[s].course
      ELSE <<>> : s \in 1..Len(Sites) }

\* C18: a get_children call returns no empty set of children but one that the
\* parse of a page the portal served has produced: a page all of whose titled
\* items can be constructed, and none of them.  (A call whose fetch failed
\* leaves the object to be fetched again.)
C18_NoEmptyChildrenUnfetched ==
    \A g \in Calls :
        /\ g.exc = "none" /\ g.ret = Some(<<>>)
            => \E page \in Listings(g.pre.url) :
                    Failing(page) = {} /\ Constructible(page) = {}
        /\ g.exc \in {"IliasFSNetworkError", "IliasFSError", "InvalidCredentialsError"}
            => stale(g.post)

\* ------------------------------------- the cache across directory refreshes
\* The entries of the cache that have not expired.
Unexpired == { cache[i] : i \in { j \in 1..Len(cache) : now - cache[j].time <= cache_timeout } }

\* C19: the File object of every entry of the cache that has not expired is
\* an object of the tree, the one a path resolves to; and a read of a file
\* whose payload an unexpired entry held makes no fetch of the file's url.
C19_CachedPayloadReachable ==
    /\ \A e \in Unexpired : e.file \in DOMAIN nodes
    /\ fsLog.op = "read" /\ fsLog.node \in DOMAIN nodes
       /\ (\E i \in 1..Len(fsLog.cache0) :
               now - fsLog.cache0[i].time <= cache_timeout)
        => \A i \in 1..Len(fsLog.fetches) : fsLog.fetches[i].url # nodes[fsLog.node].url

====
